---- MODULE Spec2Model ----
(***************************************************************************)
(* Model of 3DExperiment.js: the hover highlight kept by the mousemove     *)
(* handler, the click handler registered by startExperiment, the reveal    *)
(* function onStepComplete and the five asynchronous model loads.          *)
(***************************************************************************)
EXTENDS Integers, Sequences, FiniteSets, TLC

\* ------------------------------------------------------------------ bounds
\* startExperiment may be called any number of times; the model stops
\* registering click handlers after MaxHandlers of them.
MaxHandlers == 2

\* --------------------------------------------------------- program constants
HighlightHex == 16711680   \* 0xff0000
NoEmissiveHex == 0         \* 0x000000
Undefined == -1            \* an absent userData.originalEmissiveHex
Null == "null"

\* ----------------------------------------------------- the loaded scene graph
\* The .glb files are data: the model fixes one scene graph that contains the
\* shapes the handlers distinguish (a group named Cube_0 in each glove, groups
\* directly below the roots named "Flint Striker" and "Toothpick", a group
\* named Circle001, a group nested in another group, unmapped groups).
Models == {"petriDish", "flintStriker", "toothpick", "finalResult", "gloves"}
Handles == {"glove1", "glove2", "finalResult", "petriDish", "flintStriker", "toothpick"}

Children ==
  [ scene        |-> << >>,
    glove1       |-> <<"g1_Cube_0">>,
    g1_Cube_0    |-> <<"g1_mesh">>,
    g1_mesh      |-> << >>,
    glove2       |-> <<"g2_Cube_0">>,
    g2_Cube_0    |-> <<"g2_mesh">>,
    g2_mesh      |-> << >>,
    flintStriker |-> <<"fs_body">>,
    fs_body      |-> <<"fs_mesh1", "fs_handle">>,
    fs_mesh1     |-> << >>,
    fs_handle    |-> <<"fs_mesh2">>,
    fs_mesh2     |-> << >>,
    toothpick    |-> <<"tp_group">>,
    tp_group     |-> <<"tp_mesh">>,
    tp_mesh      |-> << >>,
    petriDish    |-> <<"pd_Circle001">>,
    pd_Circle001 |-> <<"pd_mesh">>,
    pd_mesh      |-> << >>,
    finalResult  |-> <<"fr_group">>,
    fr_group     |-> <<"fr_mesh">>,
    fr_mesh      |-> << >> ]

Nodes == DOMAIN Children

Meshes == {"g1_mesh", "g2_mesh", "fs_mesh1", "fs_mesh2", "tp_mesh", "pd_mesh", "fr_mesh"}

IsMesh(n) == n \in Meshes

\* object.parent once the model root has been added to the scene
Parent(n) ==
  IF n = "scene" THEN Null
  ELSE IF n \in Handles THEN "scene"
  ELSE CHOOSE p \in Nodes : \E i \in 1..Len(Children[p]) : Children[p][i] = n

\* object.name after the load callback has run
Name(n) ==
  CASE n = "glove1"       -> "Glove 1"
    [] n = "glove2"       -> "Glove 2"
    [] n = "g1_Cube_0"    -> "Cube_0"
    [] n = "g2_Cube_0"    -> "Cube_0"
    [] n = "flintStriker" -> "Flint Striker"
    [] n = "fs_body"      -> "Striker"
    [] n = "fs_handle"    -> "Handle"
    [] n = "toothpick"    -> "Toothpick"
    [] n = "tp_group"     -> "Circle001"
    [] n = "tp_mesh"      -> "ToothpickMesh"
    [] n = "petriDish"    -> "Petri Dish"
    [] n = "pd_Circle001" -> "Circle001"
    [] n = "pd_mesh"      -> "PetriDishMesh"
    [] n = "finalResult"  -> "Final Result"
    [] OTHER              -> ""

\* material.emissive of each mesh as stored in its .glb file
GlbEmissive ==
  [ g1_mesh  |-> 0,
    g2_mesh  |-> 0,
    fs_mesh1 |-> 2236962,
    fs_mesh2 |-> 0,
    tp_mesh  |-> 3355443,
    pd_mesh  |-> 0,
    fr_mesh  |-> 1118481 ]

\* Object3D.traverse: the node, then its children in order, depth first
RECURSIVE Traverse(_)
RECURSIVE TraverseAll(_)
TraverseAll(kids) ==
  IF kids = << >> THEN << >>
  ELSE Traverse(Head(kids)) \o TraverseAll(Tail(kids))

Traverse(n) == <<n>> \o TraverseAll(Children[n])

SeqRange(s) == { s[i] : i \in 1..Len(s) }

SelectMeshes(s) == SelectSeq(s, IsMesh)

\* the meshes a traverse of n visits, in visiting order
TraverseMeshes(n) == SelectMeshes(Traverse(n))

\* the handles a load callback assigns, in the order it registers them
RootsOf(model) ==
  IF model = "gloves" THEN <<"glove1", "glove2">> ELSE <<model>>

\* mutant: no callback sets visible = false, every root keeps the default
InitiallyVisibleDefault(h) == h \in Handles

\* visible flag each root has when its load callback returns
InitiallyVisible(h) == h \in {"glove1", "glove2"}

\* ------------------------------------------------------------------- state
VARIABLES
  pending,                  \* models whose loader.load has not called back yet
  visible,                  \* .visible of every assigned model handle
  selectableObjects,        \* the list of pickable meshes
  handlers,                 \* number of click listeners startExperiment added
  calls,                    \* per listener, what the last click did to triggerNextStep
  emittedMax,               \* highest step tag passed to triggerNextStep so far
  earlyAcks,                \* flags onStepComplete got while the handle they reveal was undefined
  emissive,                 \* material.emissive hex of every mesh
  originalEmissiveHex,      \* userData.originalEmissiveHex of every mesh
  previouslyHoveredObject   \* the highlighted group or Null

stepVars == <<pending, visible, selectableObjects, handlers, calls, emittedMax, earlyAcks>>
hoverVars == <<emissive, originalEmissiveHex, previouslyHoveredObject>>
vars == <<pending, visible, selectableObjects, handlers, calls, emittedMax, earlyAcks,
          emissive, originalEmissiveHex, previouslyHoveredObject>>

\* the handles that are no longer undefined
Assigned == DOMAIN visible

Init ==
  /\ pending = Models
  /\ visible = [h \in {} |-> FALSE]
  /\ selectableObjects = << >>
  /\ handlers = 0
  /\ calls = << >>
  /\ emittedMax = 0
  /\ earlyAcks = {}
  /\ emissive = GlbEmissive
  /\ originalEmissiveHex = [m \in Meshes |-> Undefined]
  /\ previouslyHoveredObject = Null

\* ------------------------------------------------------------ model loading
RECURSIVE RootsMeshes(_)
RootsMeshes(roots) ==
  IF roots = << >> THEN << >>
  ELSE TraverseMeshes(Head(roots)) \o RootsMeshes(Tail(roots))

LoadVisible(vis, model) ==
  [h \in DOMAIN vis \cup SeqRange(RootsOf(model)) |->
     IF h \in SeqRange(RootsOf(model)) THEN InitiallyVisible(h) ELSE vis[h]]

\* mutant: the callback assigns the pickable list instead of pushing to it
LoadOverwrites(model) ==
  /\ model \in pending
  /\ pending' = pending \ {model}
  /\ visible' = LoadVisible(visible, model)
  /\ selectableObjects' = RootsMeshes(RootsOf(model))
  /\ UNCHANGED <<handlers, calls, emittedMax, earlyAcks>>
  /\ UNCHANGED hoverVars

Load(model) ==
  /\ model \in pending
  /\ pending' = pending \ {model}
  /\ visible' = LoadVisible(visible, model)
  /\ selectableObjects' = selectableObjects \o RootsMeshes(RootsOf(model))
  /\ UNCHANGED <<handlers, calls, emittedMax, earlyAcks>>
  /\ UNCHANGED hoverVars

\* ------------------------------------------------------------ the step tags
Steps == <<"step1", "step2", "step3", "step4", "complete">>

Rank(tag) == CHOOSE i \in 1..Len(Steps) : Steps[i] = tag

\* flags the tracker may pass to onStepComplete; "step9" stands for any other
Flags == SeqRange(Steps) \cup {"step9"}

\* ------------------------------------------------------- the click handler
\* what a pointer position can resolve to: intersects[0].object, or Null when
\* intersects is empty.  Raycaster.intersectObjects does not look at .visible.
Hits == SeqRange(selectableObjects) \cup {Null}

\* x.visible = v; a TypeError when x is still undefined
Hide(r, h) ==
  IF r.threw THEN r
  ELSE IF h \notin DOMAIN r.visible THEN [r EXCEPT !.threw = TRUE]
  ELSE [r EXCEPT !.visible[h] = FALSE]

\* if (x) { x.visible = true; }
ShowIfAssigned(vis, h) ==
  IF h \in DOMAIN vis THEN [vis EXCEPT ![h] = TRUE] ELSE vis

\* triggerNextStep(tag)
Trigger(r, tag) ==
  IF r.threw THEN r ELSE [r EXCEPT !.tags = Append(@, tag)]

\* mutant: the glove case passes the tag of the flint striker case
GloveBranchWrongTag(r) == Trigger(Hide(Hide(r, "glove1"), "glove2"), "step2")

\* mutant: the second glove is left alone
GloveBranchOneGlove(r) == Trigger(Hide(r, "glove1"), "step1")

GloveBranch(r) == Trigger(Hide(Hide(r, "glove1"), "glove2"), "step1")

FlintStrikerBranch(r) == Trigger(Hide(r, "flintStriker"), "step2")

\* mutant: the toothpick is shown instead of hidden
ToothpickBranchShows(r) ==
  Trigger(IF r.threw \/ "toothpick" \notin DOMAIN r.visible
          THEN Hide(r, "toothpick")
          ELSE [r EXCEPT !.visible["toothpick"] = TRUE], "step3")

\* mutant: the branch is taken only while the toothpick is shown
ToothpickBranchGated(r) ==
  IF "toothpick" \in DOMAIN r.visible /\ ~r.visible["toothpick"]
  THEN r
  ELSE Trigger(Hide(r, "toothpick"), "step3")

ToothpickBranch(r) == Trigger(Hide(r, "toothpick"), "step3")

\* mutant: the final result is toggled instead of shown
PetriDishBranchToggles(r) ==
  LET h == Hide(r, "toothpick")
      s == IF h.threw \/ "finalResult" \notin DOMAIN h.visible THEN h
           ELSE [h EXCEPT !.visible["finalResult"] = ~@]
  IN  Trigger(s, "step4")

PetriDishBranch(r) ==
  LET h == Hide(r, "toothpick")
      s == IF h.threw THEN h
           ELSE [h EXCEPT !.visible = ShowIfAssigned(@, "finalResult")]
  IN  Trigger(s, "step4")

\* mutant: the Circle001 case is tested before the two parent-name cases
SwitchCircleFirst(r, clickedObject, parentObject) ==
  IF Name(clickedObject) = "Cube_0" THEN GloveBranch(r)
  ELSE IF Name(clickedObject) = "Circle001" THEN PetriDishBranch(r)
  ELSE IF parentObject = Null THEN [r EXCEPT !.threw = TRUE]
  ELSE IF Name(parentObject) = "Flint Striker" THEN FlintStrikerBranch(r)
  ELSE IF Name(parentObject) = "Toothpick" THEN ToothpickBranch(r)
  ELSE r

\* mutant: the Circle001 case has become the default case
SwitchDefaultPetriDish(r, clickedObject, parentObject) ==
  IF Name(clickedObject) = "Cube_0" THEN GloveBranch(r)
  ELSE IF parentObject = Null THEN [r EXCEPT !.threw = TRUE]
  ELSE IF Name(parentObject) = "Flint Striker" THEN FlintStrikerBranch(r)
  ELSE IF Name(parentObject) = "Toothpick" THEN ToothpickBranch(r)
  ELSE PetriDishBranch(r)

\* the switch (true) of the click listener: the first case that holds
Switch(r, clickedObject, parentObject) ==
  IF Name(clickedObject) = "Cube_0" THEN GloveBranch(r)
  ELSE IF parentObject = Null THEN [r EXCEPT !.threw = TRUE]
  ELSE IF Name(parentObject) = "Flint Striker" THEN FlintStrikerBranch(r)
  ELSE IF Name(parentObject) = "Toothpick" THEN ToothpickBranch(r)
  ELSE IF Name(clickedObject) = "Circle001" THEN PetriDishBranch(r)
  ELSE r

\* one run of the click listener on the current visible flags
ClickHandler(vis, hit) ==
  LET r == [visible |-> vis, tags |-> << >>, threw |-> FALSE]
  IN  IF hit = Null THEN r
      ELSE Switch(r, Parent(hit), Parent(Parent(hit)))

\* the event target runs its n listeners in registration order; a listener
\* that throws does not stop the ones after it
RECURSIVE Dispatch(_, _, _)
Dispatch(vis, hit, n) ==
  IF n = 0 THEN [visible |-> vis, calls |-> << >>]
  ELSE LET r == ClickHandler(vis, hit)
           rest == Dispatch(r.visible, hit, n - 1)
       IN  [visible |-> rest.visible,
            calls |-> <<[tags |-> r.tags, threw |-> r.threw]>> \o rest.calls]

Max(a, b) == IF a >= b THEN a ELSE b

RECURSIVE MaxRank(_, _)
MaxRank(m, tags) ==
  IF tags = << >> THEN m ELSE MaxRank(Max(m, Rank(Head(tags))), Tail(tags))

RECURSIVE MaxRankOfCalls(_, _)
MaxRankOfCalls(m, cs) ==
  IF cs = << >> THEN m ELSE MaxRankOfCalls(MaxRank(m, Head(cs).tags), Tail(cs))

Click(hit) ==
  /\ hit \in Hits
  /\ LET d == Dispatch(visible, hit, handlers)
     IN  /\ visible' = d.visible
         /\ calls' = d.calls
         /\ emittedMax' = MaxRankOfCalls(emittedMax, d.calls)
  /\ UNCHANGED <<pending, selectableObjects, handlers, earlyAcks>>
  /\ UNCHANGED hoverVars

StartExperiment ==
  /\ handlers < MaxHandlers
  /\ handlers' = handlers + 1
  /\ UNCHANGED <<pending, visible, selectableObjects, calls, emittedMax, earlyAcks>>
  /\ UNCHANGED hoverVars

\* ----------------------------------------------------------- onStepComplete
\* mutant: each case reveals the model of the case after it
StepCompleteVisibleShifted(vis, flag) ==
  CASE flag = "step1" -> ShowIfAssigned(vis, "flintStriker")
    [] flag = "step2" -> ShowIfAssigned(vis, "toothpick")
    [] flag = "step3" -> ShowIfAssigned(vis, "petriDish")
    [] flag = "step4" -> ShowIfAssigned(vis, "finalResult")
    [] OTHER          -> vis

\* mutant: the default case shows the final result
StepCompleteVisibleDefaultShows(vis, flag) ==
  CASE flag = "step2" -> ShowIfAssigned(vis, "flintStriker")
    [] flag = "step3" -> ShowIfAssigned(vis, "toothpick")
    [] flag = "step4" -> ShowIfAssigned(vis, "petriDish")
    [] flag \in {"step1", "complete"} -> vis
    [] OTHER          -> ShowIfAssigned(vis, "finalResult")

StepCompleteVisible(vis, flag) ==
  CASE flag = "step2" -> ShowIfAssigned(vis, "flintStriker")
    [] flag = "step3" -> ShowIfAssigned(vis, "toothpick")
    [] flag = "step4" -> ShowIfAssigned(vis, "petriDish")
    [] OTHER          -> vis

StepComplete(flag) ==
  /\ flag \in Flags
  /\ visible' = StepCompleteVisible(visible, flag)
  /\ UNCHANGED <<pending, selectableObjects, handlers, calls, emittedMax>>
  /\ UNCHANGED hoverVars

OnStepComplete(flag) == StepComplete(flag) /\ UNCHANGED earlyAcks

\* the handle whose if (x) guard a flag's case tests
GuardedHandle(flag) ==
  CASE flag = "step2" -> "flintStriker"
    [] flag = "step3" -> "toothpick"
    [] flag = "step4" -> "petriDish"
    [] OTHER          -> Null

\* the same call, with the flags whose if (x) guard failed kept on record
OnStepCompleteRecorded(flag) ==
  /\ StepComplete(flag)
  /\ earlyAcks' = IF GuardedHandle(flag) # Null /\ GuardedHandle(flag) \notin Assigned
                  THEN earlyAcks \cup {flag}
                  ELSE earlyAcks

Next ==
  \/ \E model \in Models : Load(model)
  \/ StartExperiment
  \/ \E hit \in Hits : Click(hit)
  \/ \E flag \in Flags : OnStepComplete(flag)

Spec == Init /\ [][Next]_vars

\* loads and acknowledgments alone, the acknowledgments on record
NextAcks ==
  \/ \E model \in Models : Load(model)
  \/ \E flag \in Flags : OnStepCompleteRecorded(flag)

SpecAcks == Init /\ [][NextAcks]_vars

\* ------------------------------------------------------ the mousemove handler
\* the meshes object.traverse visits
SubtreeMeshes(obj) == SeqRange(TraverseMeshes(obj))

\* mutant: the stored colour is ignored and the reset is always to black
OrBlackAlways(hex) == NoEmissiveHex

\* child.userData.originalEmissiveHex || 0x000000
OrBlack(hex) == IF hex = Undefined \/ hex = 0 THEN NoEmissiveHex ELSE hex

\* !child.userData.originalEmissiveHex
NotCached(hex) == hex = Undefined \/ hex = 0

\* mutant: the reset visits the direct children only, not the whole subtree
ResetEmissiveChildrenOnly(em, orig, obj) ==
  [m \in Meshes |-> IF Parent(m) = obj THEN OrBlack(orig[m]) ELSE em[m]]

\* traverse of the previously hovered object: reset the emissive colour
ResetEmissive(em, orig, obj) ==
  [m \in Meshes |-> IF m \in SubtreeMeshes(obj) THEN OrBlack(orig[m]) ELSE em[m]]

\* traverse of the hovered object: store the original emissive colour
CacheOriginal(em, orig, obj) ==
  [m \in Meshes |->
     IF m \in SubtreeMeshes(obj) /\ NotCached(orig[m]) THEN em[m] ELSE orig[m]]

\* traverse of the hovered object: set the highlight colour
Highlight(em, obj) ==
  [m \in Meshes |-> IF m \in SubtreeMeshes(obj) THEN HighlightHex ELSE em[m]]

\* mutant: the previously hovered object is not reset before the new highlight
HoverEmissiveNoReset(em, orig, prev, hoveredObject) == Highlight(em, hoveredObject)

\* the emissive colours after the handler's if (intersects.length > 0) branch
HoverEmissive(em, orig, prev, hoveredObject) ==
  LET afterReset == IF prev # Null THEN ResetEmissive(em, orig, prev) ELSE em
  IN  Highlight(afterReset, hoveredObject)

HoverOriginal(em, orig, prev, hoveredObject) ==
  LET afterReset == IF prev # Null THEN ResetEmissive(em, orig, prev) ELSE em
  IN  CacheOriginal(afterReset, orig, hoveredObject)

\* mutant: a move inside the hovered group is not told apart: it stores the
\* originals and sets the highlight colour again
MouseMoveUnguarded(hit) ==
  /\ hit \in Hits
  /\ IF hit # Null
     THEN LET hoveredObject == Parent(hit)
              prev == IF hoveredObject = previouslyHoveredObject
                      THEN Null ELSE previouslyHoveredObject
          IN  /\ emissive' = HoverEmissive(emissive, originalEmissiveHex,
                                           prev, hoveredObject)
              /\ originalEmissiveHex' =
                   HoverOriginal(emissive, originalEmissiveHex, prev, hoveredObject)
              /\ previouslyHoveredObject' = hoveredObject
     ELSE IF previouslyHoveredObject # Null
          THEN /\ emissive' = ResetEmissive(emissive, originalEmissiveHex,
                                            previouslyHoveredObject)
               /\ previouslyHoveredObject' = Null
               /\ UNCHANGED originalEmissiveHex
          ELSE UNCHANGED hoverVars
  /\ UNCHANGED stepVars

MouseMove(hit) ==
  /\ hit \in Hits
  /\ IF hit # Null
     THEN LET hoveredObject == Parent(hit)
          IN  IF hoveredObject # previouslyHoveredObject
              THEN /\ emissive' = HoverEmissive(emissive, originalEmissiveHex,
                                                previouslyHoveredObject, hoveredObject)
                   /\ originalEmissiveHex' =
                        HoverOriginal(emissive, originalEmissiveHex,
                                      previouslyHoveredObject, hoveredObject)
                   /\ previouslyHoveredObject' = hoveredObject
              ELSE UNCHANGED hoverVars
     ELSE IF previouslyHoveredObject # Null
          THEN /\ emissive' = ResetEmissive(emissive, originalEmissiveHex,
                                            previouslyHoveredObject)
               /\ previouslyHoveredObject' = Null
               /\ UNCHANGED originalEmissiveHex
          ELSE UNCHANGED hoverVars
  /\ UNCHANGED stepVars

NextHover ==
  \/ \E model \in Models : Load(model)
  \/ \E hit \in Hits : MouseMove(hit)

SpecHover == Init /\ [][NextHover]_vars

\* ------------------------------------------------- one session, all handlers
\* The handlers together, in sessions where the loads call back in the order
\* of their loader.load calls and the pointer moves over the flint striker
\* (its outer and its nested group) or over no object; clicks land anywhere.
LoadOrder == <<"petriDish", "flintStriker", "toothpick", "finalResult", "gloves">>

LoadInOrder(model) ==
  /\ \E i \in 1..Len(LoadOrder) :
       /\ LoadOrder[i] = model
       /\ \A j \in 1..(i - 1) : LoadOrder[j] \notin pending
  /\ Load(model)

HoverHits == (SeqRange(selectableObjects) \cap {"fs_mesh1", "fs_mesh2"}) \cup {Null}

MouseMoveOver(hit) == hit \in HoverHits /\ MouseMove(hit)

NextSession ==
  \/ \E model \in Models : LoadInOrder(model)
  \/ StartExperiment
  \/ \E hit \in Hits : Click(hit)
  \/ \E flag \in Flags : OnStepComplete(flag)
  \/ \E hit \in HoverHits : MouseMoveOver(hit)

SpecSession == Init /\ [][NextSession]_vars

\* ---------------------------------------------------------------- the claims
\* some listener passed tag to triggerNextStep during the last click
Emitted(cs, tag) ==
  \E i \in 1..Len(cs) : \E j \in 1..Len(cs[i].tags) : cs[i].tags[j] = tag

\* this step is a click
Clicked == \E hit \in Hits : Click(hit)

\* this step is a call of onStepComplete
Acknowledged == \E flag \in Flags : OnStepComplete(flag)

\* h goes from hidden to shown in this step
Revealed(h) == h \in Assigned /\ ~visible[h] /\ visible'[h]

\* C1: the tags passed to triggerNextStep never decrease in the order
\* step1 < step2 < step3 < step4 < complete: no tag of the last click ranks
\* below the highest tag emitted in the session.
C1_TagsNonDecreasing ==
  \A i \in 1..Len(calls) : \A j \in 1..Len(calls[i].tags) :
    Rank(calls[i].tags[j]) >= emittedMax

\* C2: no skipping ahead: a click emits step2, step3 or step4 only when the
\* object that step consumes (flint striker, toothpick, petri dish) had been
\* revealed, that is, was assigned and visible when the click arrived.
C2_NoSkipAhead ==
  [][/\ Emitted(calls', "step2") /\ Clicked =>
          "flintStriker" \in Assigned /\ visible["flintStriker"]
     /\ Emitted(calls', "step3") /\ Clicked =>
          "toothpick" \in Assigned /\ visible["toothpick"]
     /\ Emitted(calls', "step4") /\ Clicked =>
          "petriDish" \in Assigned /\ visible["petriDish"]]_vars

\* C3 as claimed: no click turns any model's visible flag from false to true.
C3_ClickRevealsNothing ==
  [][\A h \in Handles : Revealed(h) => ~Clicked]_vars

\* C3 as amended: a click never reveals the gloves, the flint striker, the
\* toothpick or the petri dish, whose false-to-true changes all happen inside
\* onStepComplete; the final result is revealed by clicks and by nothing else.
C3_ClickRevealsOnlyFinalResult ==
  [][/\ \A h \in Handles \ {"finalResult"} : Revealed(h) => ~Clicked
     /\ \A h \in Handles \ {"finalResult"} : Revealed(h) => Acknowledged
     /\ Revealed("finalResult") => Clicked /\ Emitted(calls', "step4")]_vars

\* C3 witness: a click has revealed the final result and an acknowledgment
\* has revealed the flint striker.
C3_Witness ==
  /\ {"finalResult", "flintStriker"} \subseteq Assigned
  /\ visible["finalResult"]
  /\ visible["flintStriker"]
  /\ Emitted(calls, "step4")

\* C4: no run of the click listener raises an exception.
C4_NoException ==
  \A i \in 1..Len(calls) : ~calls[i].threw

\* C4 failing input: the petri dish model is loaded, the toothpick model is
\* not, and the click lands on the petri dish mesh below the group Circle001.
C4_FailingInput ==
  /\ "petriDish" \in Assigned
  /\ "toothpick" \notin Assigned
  /\ handlers > 0
  /\ ClickHandler(visible, "pd_mesh").threw

\* m carries the highlight colour
Highlighted(m) == emissive[m] = HighlightHex

\* the groups a hit test can resolve to: the parents of the pickable meshes
HitRoots == { Parent(m) : m \in SeqRange(selectableObjects) }

\* some mesh directly below group g carries the highlight colour
ShowsHighlight(g) == \E m \in Meshes : Parent(m) = g /\ Highlighted(m)

\* C5 as claimed: at most one hit-test group has meshes carrying the highlight
\* colour.
C5_AtMostOneGroupHighlighted ==
  Cardinality({ g \in HitRoots : ShowsHighlight(g) }) <= 1

\* C5 as amended: the meshes carrying the highlight colour are exactly the
\* meshes of the subtree of the one recorded group previouslyHoveredObject
\* (none when it is null), so two groups show the highlight colour together
\* only when both lie in that subtree.
C5_OneHighlightedSubtree ==
  /\ { m \in Meshes : Highlighted(m) } =
       IF previouslyHoveredObject = Null THEN {}
       ELSE SubtreeMeshes(previouslyHoveredObject)
  /\ \A g \in HitRoots :
       ShowsHighlight(g) => g \in SeqRange(Traverse(previouslyHoveredObject))

\* C5 witness: the outer flint striker group is hovered and the mesh of the
\* group nested in it carries the highlight colour too.
C5_Witness ==
  /\ previouslyHoveredObject = "fs_body"
  /\ ShowsHighlight("fs_body")
  /\ ShowsHighlight("fs_handle")

\* C6: a mesh that carries the highlight colour lies in the subtree of a
\* non-null previouslyHoveredObject.
C6_HighlightHasRecord ==
  \A m \in Meshes :
    Highlighted(m) =>
      /\ previouslyHoveredObject # Null
      /\ m \in SubtreeMeshes(previouslyHoveredObject)

\* C6 witness: a group is highlighted after the pointer left another group,
\* whose mesh was highlighted before and no longer is.
C6_Witness ==
  /\ previouslyHoveredObject # Null
  /\ \E m \in Meshes : Highlighted(m)
  /\ \E m \in Meshes : originalEmissiveHex[m] # Undefined /\ ~Highlighted(m)

\* C7: the reset a miss performs gives every mesh of the highlighted object
\* its colour from before the first highlight, and whenever no object is
\* recorded as hovered every mesh carries that colour.
C7_MissRestoresOriginal ==
  /\ previouslyHoveredObject # Null =>
       \A m \in SubtreeMeshes(previouslyHoveredObject) :
         ResetEmissive(emissive, originalEmissiveHex,
                       previouslyHoveredObject)[m] = GlbEmissive[m]
  /\ previouslyHoveredObject = Null =>
       \A m \in Meshes : emissive[m] = GlbEmissive[m]

\* C7 witness: the pointer has left the flint striker after hovering it: a
\* mesh with a coloured original and a nested mesh with a black original have
\* both been highlighted and restored.
C7_Witness ==
  /\ previouslyHoveredObject = Null
  /\ originalEmissiveHex["fs_mesh1"] = GlbEmissive["fs_mesh1"]
  /\ originalEmissiveHex["fs_mesh2"] = 0
  /\ originalEmissiveHex["tp_mesh"] # Undefined

\* the pointer position resolves to a glove: the group clicked is named Cube_0
IsGloveHit(hit) == hit # Null /\ Name(Parent(hit)) = "Cube_0"

\* C8: a click that resolves to either glove leaves both gloves hidden, has
\* every registered listener call the tracker exactly once, with "step1", and
\* changes no other model's visible flag.
C8_GloveClick ==
  \A hit \in Hits :
    IsGloveHit(hit) /\ handlers > 0 =>
      LET d == Dispatch(visible, hit, handlers)
      IN  /\ DOMAIN d.visible = Assigned
          /\ ~d.visible["glove1"]
          /\ ~d.visible["glove2"]
          /\ Len(d.calls) = handlers
          /\ \A i \in 1..Len(d.calls) :
               d.calls[i] = [tags |-> <<"step1">>, threw |-> FALSE]
          /\ \A h \in Assigned \ {"glove1", "glove2"} : d.visible[h] = visible[h]

\* C8 witness: a glove click has been handled while another model was shown.
C8_Witness ==
  /\ handlers > 0
  /\ calls # << >>
  /\ calls[1].tags = <<"step1">>
  /\ "glove1" \in Assigned /\ ~visible["glove1"] /\ ~visible["glove2"]
  /\ "flintStriker" \in Assigned /\ visible["flintStriker"]

\* C9: after onStepComplete("step2") the flint striker is visible: the call
\* shows it when it is loaded, and a call that came before the load leaves it
\* visible once it is loaded.
C9_Step2ShowsFlintStriker ==
  /\ "flintStriker" \in Assigned =>
       StepCompleteVisible(visible, "step2")["flintStriker"]
  /\ "step2" \in earlyAcks /\ "flintStriker" \in Assigned =>
       visible["flintStriker"]

Unmapped(hit) ==
  \/ hit = Null
  \/ /\ Name(Parent(hit)) \notin {"Cube_0", "Circle001"}
     /\ Name(Parent(Parent(hit))) \notin {"Flint Striker", "Toothpick"}

\* C11: a click that hits no pickable object, or an object that matches no
\* table entry, changes no visible flag, calls no tracker callback (every
\* listener returns without a tag and without an exception) and leaves the
\* hover record (colours, cached originals, previouslyHoveredObject) alone.
C11_UnmappedClickIsNoOp ==
  [][\A hit \in Hits :
       Unmapped(hit) /\ Click(hit) =>
         /\ visible' = visible
         /\ Len(calls') = handlers
         /\ \A i \in 1..Len(calls') : calls'[i] = [tags |-> << >>, threw |-> FALSE]
         /\ emittedMax' = emittedMax
         /\ UNCHANGED hoverVars]_vars

\* C11 witness: the last click called no tracker, after an earlier click had
\* emitted a tag, while a flint striker group is highlighted and a gated model
\* is shown.
C11_Witness ==
  /\ handlers > 0
  /\ Len(calls) = handlers
  /\ \A i \in 1..Len(calls) : calls[i] = [tags |-> << >>, threw |-> FALSE]
  /\ emittedMax > 0
  /\ previouslyHoveredObject # Null
  /\ "toothpick" \in Assigned /\ visible["toothpick"]

\* flags outside {step1, step2, step3, step4, complete}
UnknownFlags == (Flags \ SeqRange(Steps)) \cup {"step0", "Step2", "", "done"}

\* C12: onStepComplete with an unknown tag changes no state: the switch
\* leaves every visible flag as it was, and no step that is such a call
\* changes the pickable list, the hover record or anything else.
C12_UnknownFlagIsNoOp ==
  /\ [](\A flag \in UnknownFlags : StepCompleteVisible(visible, flag) = visible)
  /\ [][\A flag \in Flags \ SeqRange(Steps) :
          OnStepComplete(flag) => UNCHANGED vars]_vars

\* C12 witness: a state in which the call has something it could change:
\* hidden and shown models, pickable meshes and a highlighted group.
C12_Witness ==
  /\ Assigned = Handles
  /\ ~visible["finalResult"] /\ ~visible["petriDish"] /\ visible["flintStriker"]
  /\ selectableObjects # << >>
  /\ previouslyHoveredObject # Null
  /\ ENABLED OnStepComplete("step9")

\* the clicked group matches one of the four cases of the switch
Mapped(hit) == hit \in Hits /\ ~Unmapped(hit)

\* C13: the click transition is idempotent on visibility: handling a click on
\* the same mapped identity a second time, by the listener alone or by all
\* registered listeners, leaves every visible flag as the first handling
\* left it.
C13_AdvanceIdempotent ==
  \A hit \in Hits :
    Mapped(hit) =>
      LET once == ClickHandler(visible, hit)
          first == Dispatch(visible, hit, handlers)
      IN  /\ ClickHandler(once.visible, hit).visible = once.visible
          /\ Dispatch(first.visible, hit, handlers).visible = first.visible

\* C13 witness: two listeners have handled the same click on the petri dish
\* one after the other: the toothpick was shown before, and is hidden, and the
\* final result is shown.
C13_Witness ==
  /\ handlers >= 2
  /\ Len(calls) >= 2
  /\ calls[1].tags = <<"step4">> /\ calls[2].tags = <<"step4">>
  /\ "finalResult" \in Assigned /\ visible["finalResult"]
  /\ "toothpick" \in Assigned /\ ~visible["toothpick"]
  /\ Mapped("pd_mesh")

\* the clicked group's parent is named "Toothpick"
IsToothpickHit(hit) == hit # Null /\ Name(Parent(Parent(hit))) = "Toothpick"

\* C14: a click on a registered mesh whose group's parent is named
\* "Toothpick" hides the toothpick and has every listener emit "step3", in
\* every reachable state: whatever was acknowledged before, and whether the
\* toothpick is shown or hidden.
C14_ToothpickClickNotGated ==
  \A hit \in Hits :
    IsToothpickHit(hit) /\ handlers > 0 =>
      LET d == Dispatch(visible, hit, handlers)
      IN  /\ "toothpick" \in DOMAIN d.visible
          /\ ~d.visible["toothpick"]
          /\ \A i \in 1..Len(d.calls) :
               d.calls[i] = [tags |-> <<"step3">>, threw |-> FALSE]

\* C14 witness: "step3" was emitted by a click on the hidden toothpick while
\* the gloves are still shown (step1 never happened) and the flint striker is
\* still hidden.
C14_Witness ==
  /\ handlers > 0
  /\ Emitted(calls, "step3")
  /\ emittedMax = 3
  /\ {"glove1", "flintStriker", "toothpick"} \subseteq Assigned
  /\ visible["glove1"]
  /\ ~visible["flintStriker"]
  /\ ~visible["toothpick"]

\* s is an initial part of t
IsPrefix(s, t) == Len(s) <= Len(t) /\ \A i \in 1..Len(s) : s[i] = t[i]

\* the position of mesh m in the pickable list
Position(m) == CHOOSE i \in 1..Len(selectableObjects) : selectableObjects[i] = m

\* C15: load completions commute: with no click and no acknowledgment in
\* between, the pickable meshes (as a set, each listed once), the assigned
\* handles and the visible flags depend only on which loads have completed,
\* not on their order, and after all five the pickable set is every mesh, the
\* six handles are assigned and only the gloves are shown; every step leaves
\* the old pickable list as an initial part of the new one.
C15_LoadsCommute ==
  /\ [](/\ SeqRange(selectableObjects) =
             { m \in Meshes : \E model \in Models \ pending :
                                \E i \in 1..Len(RootsOf(model)) :
                                  m \in SubtreeMeshes(RootsOf(model)[i]) }
        /\ Len(selectableObjects) = Cardinality(SeqRange(selectableObjects))
        /\ Assigned = { h \in Handles : \E model \in Models \ pending :
                                          h \in SeqRange(RootsOf(model)) }
        /\ visible = [h \in Assigned |-> h \in {"glove1", "glove2"}]
        /\ pending = {} =>
             /\ SeqRange(selectableObjects) = Meshes
             /\ Assigned = Handles)
  /\ [][IsPrefix(selectableObjects, selectableObjects')]_vars

\* C15 witness: all five loads have completed in an order other than the
\* order of the calls (gloves first, toothpick before flint striker), with
\* hovering in between.
C15_Witness ==
  /\ pending = {}
  /\ selectableObjects[1] = "g1_mesh"
  /\ Position("tp_mesh") < Position("fs_mesh1")
  /\ previouslyHoveredObject # Null

\* C16: while the flint striker load has not completed the flint striker is
\* not visible (its handle is undefined) and no click emits "step2", neither
\* the last click nor any click that could come next; the same for the
\* toothpick and "step3".  Every emission is preceded by the load.
C16_NoStepWithoutLoad ==
  /\ "flintStriker" \in pending =>
       /\ "flintStriker" \notin Assigned
       /\ ~Emitted(calls, "step2")
       /\ \A hit \in Hits : ~Emitted(Dispatch(visible, hit, handlers).calls, "step2")
  /\ "toothpick" \in pending =>
       /\ "toothpick" \notin Assigned
       /\ ~Emitted(calls, "step3")
       /\ \A hit \in Hits : ~Emitted(Dispatch(visible, hit, handlers).calls, "step3")

\* C16 witness: clicks have been handled ("step2" emitted, the flint striker
\* being loaded) while the toothpick load is still outstanding.
C16_Witness ==
  /\ "toothpick" \in pending
  /\ "flintStriker" \notin pending
  /\ Emitted(calls, "step2")
  /\ emittedMax = 2
  /\ selectableObjects # << >>

\* C17: a mousemove whose hit test resolves to the group already recorded in
\* previouslyHoveredObject changes nothing: no emissive colour, no cached
\* original, not previouslyHoveredObject, nor any other variable.
C17_SameGroupNoWrites ==
  [][\A hit \in Hits :
       /\ hit # Null
       /\ Parent(hit) = previouslyHoveredObject
       /\ MouseMove(hit)
       => UNCHANGED vars]_vars

\* C17 witness: the outer flint striker group is highlighted, the black
\* original of its nested mesh is cached, and the pointer can move to the
\* group's own mesh.
C17_Witness ==
  /\ previouslyHoveredObject = "fs_body"
  /\ Highlighted("fs_mesh1") /\ Highlighted("fs_mesh2")
  /\ originalEmissiveHex["fs_mesh2"] = 0
  /\ "fs_mesh1" \in Hits
  /\ Parent("fs_mesh1") = previouslyHoveredObject

\* the tags one run of the switch passes to the tracker for a clicked object
\* and its parent, on the current visible flags
SwitchTags(clickedObject, parentObject) ==
  Switch([visible |-> visible, tags |-> << >>, threw |-> FALSE],
         clickedObject, parentObject).tags

\* C18: one listener passes at most one tag to the tracker per click, and the
\* tag is that of the first case that holds in the order name Cube_0, parent
\* named Flint Striker, parent named Toothpick, name Circle001, also for an
\* object that satisfies several cases; checked on the listeners of the last
\* click and on every pairing of a clicked object with a parent.
C18_FirstMatchOneTag ==
  /\ \A i \in 1..Len(calls) : Len(calls[i].tags) <= 1
  /\ \A c \in Nodes, p \in Nodes :
       LET tags == SwitchTags(c, p)
       IN  /\ Len(tags) <= 1
           /\ IF Name(c) = "Cube_0" THEN IsPrefix(tags, <<"step1">>)
              ELSE IF Name(p) = "Flint Striker" THEN IsPrefix(tags, <<"step2">>)
              ELSE IF Name(p) = "Toothpick" THEN IsPrefix(tags, <<"step3">>)
              ELSE IF Name(c) = "Circle001" THEN IsPrefix(tags, <<"step4">>)
              ELSE tags = << >>
           /\ ( /\ Name(c) = "Circle001"
                /\ Name(p) = "Toothpick"
                /\ "toothpick" \in Assigned ) => tags = <<"step3">>
           /\ ( /\ Name(c) = "Cube_0"
                /\ Name(p) \in {"Flint Striker", "Toothpick"}
                /\ {"glove1", "glove2"} \subseteq Assigned ) => tags = <<"step1">>

\* C18 witness: the last click hit the toothpick mesh, whose group is named
\* Circle001 and whose group's parent is named Toothpick, and a listener
\* passed step3.
C18_Witness ==
  /\ "tp_mesh" \in Hits
  /\ Name(Parent("tp_mesh")) = "Circle001"
  /\ Name(Parent(Parent("tp_mesh"))) = "Toothpick"
  /\ Emitted(calls, "step3")
  /\ \A i \in 1..Len(calls) : calls[i].tags = <<"step3">>

\* loads in request order, clicks, and acknowledgments on record
NextGate ==
  \/ \E model \in Models : LoadInOrder(model)
  \/ StartExperiment
  \/ \E hit \in Hits : Click(hit)
  \/ \E flag \in Flags : OnStepCompleteRecorded(flag)

SpecGate == Init /\ [][NextGate]_vars

\* the flags whose case of onStepComplete shows a model
GateFlags == {flag \in Flags : GuardedHandle(flag) # Null}

\* h is shown after this step and was not shown before it
BecomesVisible(h) ==
  /\ h \in DOMAIN visible' /\ visible'[h]
  /\ ~(h \in Assigned /\ visible[h])

\* C19: the flint striker, the toothpick and the petri dish are hidden until
\* onStepComplete is called with step2, step3, step4 respectively after the
\* model's load has completed: a gated model becomes visible only in a step
\* that is that call made with the model loaded; a call made before the load
\* changes nothing, and the model is hidden when its load completes.
C19_GatedHiddenUntilAcknowledged ==
  /\ [](\A flag \in GateFlags :
          LET h == GuardedHandle(flag)
          IN  /\ h \notin Assigned => StepCompleteVisible(visible, flag) = visible
              /\ (h \in Assigned /\ visible[h]) => h \notin pending)
  /\ [][\A flag \in GateFlags :
          LET h == GuardedHandle(flag)
          IN  /\ BecomesVisible(h) =>
                   h \in Assigned /\ OnStepCompleteRecorded(flag)
              /\ (flag \in earlyAcks /\ h \notin Assigned /\ h \in Assigned')
                   => ~visible'[h]]_vars

\* C19 witness: step2 was acknowledged before the flint striker load and the
\* flint striker is loaded and hidden; step3 was acknowledged after the
\* toothpick load and the toothpick is visible.
C19_Witness ==
  /\ "step2" \in earlyAcks
  /\ "flintStriker" \in Assigned /\ ~visible["flintStriker"]
  /\ "step3" \notin earlyAcks
  /\ "toothpick" \in Assigned /\ visible["toothpick"]

\* C20: every call of startExperiment adds a click listener and none is ever
\* removed, so with k listeners registered one click on a mapped object makes
\* k tracker calls, one per listener in registration order, all with the
\* same tag.
C20_KRegistrationsKCalls ==
  /\ Len(calls) <= handlers
  /\ \A hit \in Hits :
       Mapped(hit) =>
         LET cs == Dispatch(visible, hit, handlers).calls
         IN  /\ Len(cs) = handlers
             /\ \A i \in 1..Len(cs) :
                  /\ Len(cs[i].tags) = 1
                  /\ cs[i].tags = cs[1].tags

\* C20 failing input: two listeners are registered, the petri dish is loaded
\* and can be clicked, the toothpick load has not completed; both listeners
\* throw and neither calls the tracker.
C20_FailingInput ==
  /\ handlers = 2
  /\ Mapped("pd_mesh")
  /\ "toothpick" \notin Assigned
  /\ Dispatch(visible, "pd_mesh", handlers).calls =
       <<[tags |-> << >>, threw |-> TRUE], [tags |-> << >>, threw |-> TRUE]>>

====
